---- MODULE Spec2Model ----
(***************************************************************************)
(* Model of the cron job scheduler of basvanbeek/run-handlers              *)
(* (src/cron/service.go, src/cron/reference.go and the cron options).      *)
(*                                                                         *)
(* Time.  Every time.Time the program holds is kept as its distance from   *)
(* the current clock reading: `now` is 0, a time in the future is positive *)
(* and a time in the past negative.  When the clock advances, every stored *)
(* time moves one unit towards the past.  The program only ever compares a *)
(* stored time with time.Now(), so a time in the past is followed only as  *)
(* far as a comparison can tell: nextRun until `now`, stopAfter for one    *)
(* unit, lastRun for the Reference's interval.  maxTime and the zero       *)
(* time.Time are so far away that they do not move.                        *)
(*                                                                         *)
(* Durations are scaled: only the order Second < Minute < Hour of the      *)
(* program's durations is kept, not their ratio.                           *)
(***************************************************************************)
EXTENDS Integers, Sequences, FiniteSets, TLC

\* ---- bounds of the model ------------------------------------------------
MaxRefs == 2          \* References AddJob may create in one run
MaxMaxRun == 2        \* the WithMaxRun argument tried
MaxQueued == 2        \* spawned cancelJob goroutines counted per Reference
MaxInflight == 2      \* running job bodies counted per Reference
MaxRunCount == 1      \* triggers counted per Reference without a max-run
MaxOtherJobs == 1     \* References counted in the other Service's registry
LongDuration == 24    \* how long a job is watched on a slow Service

\* ---- durations of the program (scaled) ----------------------------------
Second == 1
Minute == 2
Hour == 3

\* time.Now(): the origin of every stored time
now == 0
\* maxTime, the largest time.Time
maxTime == 1000
\* the zero time.Time
ZeroTime == -1000

Refs == 1..MaxRefs

OnTick == "OnTick"
BetweenRuns == "BetweenRuns"

\* runCount is counted up to RunCap, which stands for "RunCap or more":
\* one more than maxRun when a max-run is set
RunCap(ref) ==
    IF ref.maxRun >= MaxRunCount THEN ref.maxRun + 1 ELSE MaxRunCount

VARIABLES
    SchedulerInterval, \* Service.SchedulerInterval, set by the host
    refs,         \* Reference objects: id -> fields
    jobs,         \* Service.jobs, a sequence of Reference ids
    sctx,         \* Service.ctx: "nil" before ServeContext, "set" after
    rootCanceled, \* the context passed to ServeContext has been canceled
    done,         \* Service.done
    mtx,          \* Service.mtx: "free" or "loop" (held by the tick iteration)
    pc,           \* position of ServeContext
    idx,          \* loop variable i of the tick iteration (1-based)
    timer,        \* time left until the loop's timer context expires
    inflight,     \* id -> number of job bodies of the Reference running
    queued,       \* id -> number of spawned `go cancelJob(r)` not yet run
    doneAt,       \* id -> when the body of a BetweenRuns job last returned,
                  \*       until its next trigger (history)
    crashed,      \* a nil func was called: the process panicked
    elapsed,      \* the test: time since job A (Reference 1) was registered,
                  \*           NotTimed in a run that is not timed
    window,       \* the test: how long job A is watched
    countA,       \* the test: bodies of job A started within the window
    scheduler,    \* the package's scheduler: "nil" or a Service
    otherJobs,    \* References in the registry of the other Service
    results,      \* the errors the job bodies of this run may return
    failed        \* id -> a "job failed" record was logged for the Reference

\* the file watcher Service of the same process
VARIABLES
    f,            \* filewatcher Service.f, the registrations in order
    p,            \* filewatcher Service.p: directory -> count (0: no entry)
    w,            \* filewatcher Service.w, the fsnotify watcher
    initialized,  \* filewatcher Service.initialized
    chans,        \* the channels made for registrations
    fwpc,         \* position of the file watcher in its life cycle
    fwEvent,      \* the fsnotify event its ServeContext is handling
    fwi,          \* index of the loop over s.f in the event handling
    fwCanceled,   \* the context passed to its ServeContext has been canceled
    fwCrashed     \* a closed channel was closed again: the process panicked

fwVars == <<f, p, w, initialized, chans, fwpc, fwEvent, fwi,
           fwCanceled, fwCrashed>>

cronVars == <<SchedulerInterval,
              refs, jobs, sctx, rootCanceled, done, mtx, pc, idx, timer,
              inflight, queued, doneAt, crashed, elapsed, window, countA,
              scheduler, otherJobs, results, failed>>

vars == <<cronVars, fwVars>>

\* ---- the file watcher: names, paths, channels ---------------------------
MaxChans == 3         \* channels AddWatcher may make in one run

\* registration names, as sequences of characters
Names == {<<"t", "f">>, <<"T", "f">>, <<"n">>}

\* file paths, as sequences of path elements
Files == {<<"d", "x">>, <<"d", "y">>, <<"e", "z">>}

\* filepath.Dir: the path without its last element
Dir(fqn) == SubSeq(fqn, 1, Len(fqn) - 1)

Dirs == {Dir(fqn) : fqn \in Files}

Chans == 1..MaxChans

\* the simple case folding of a character
FoldChar(c) ==
    CASE c = "T" -> "t"
      [] c = "F" -> "f"
      [] c = "N" -> "n"
      [] OTHER -> c

EqualFoldExact(s, t) == s = t

\* strings.EqualFold: equal under simple case folding
EqualFold(s, t) ==
    /\ Len(s) = Len(t)
    /\ \A k \in 1..Len(s) : FoldChar(s[k]) = FoldChar(t[k])

\* no event is being handled
NoEvent == [op |-> "none", name |-> <<>>]

\* the file watcher Service before PreRun: &Service{}
FwConstructed ==
    /\ f = <<>>
    /\ p = [d \in Dirs |-> 0]
    /\ w = [state |-> "nil", paths |-> {}]
    /\ initialized = 0
    /\ chans = [c \in Chans |-> "none"]
    /\ fwpc = "new"
    /\ fwEvent = NoEvent
    /\ fwi = 0
    /\ fwCanceled = FALSE
    /\ fwCrashed = FALSE

\* the test's window: time.Sleep(3 * time.Second)
Duration == 3
\* elapsed in a run that is not timed, and in a timed run before job A is
\* registered
NotTimed == 0 - 1
Armed == 0 - 2

\* A Reference that AddJob has not created yet.
NoRef == [alloc |-> FALSE, nextRun |-> ZeroTime, stopAfter |-> ZeroTime,
          interval |-> 0, mode |-> OnTick, runCount |-> 0, maxRun |-> 0,
          lastRun |-> ZeroTime, ctx |-> "nil"]

\* the Service before AddJob and ServeContext are called
Constructed ==
    /\ refs = [r \in Refs |-> NoRef]
    /\ jobs = <<>>
    /\ sctx = "nil"
    /\ rootCanceled = FALSE
    /\ done = FALSE
    /\ mtx = "free"
    /\ pc = "idle"
    /\ idx = 0
    /\ timer = 0
    /\ inflight = [r \in Refs |-> 0]
    /\ queued = [r \in Refs |-> 0]
    /\ doneAt = [r \in Refs |-> ZeroTime]
    /\ crashed = FALSE
    /\ countA = 0
    /\ failed = [r \in Refs |-> FALSE]
    /\ scheduler = "nil"
    /\ otherJobs = 0
    /\ FwConstructed

\* a Service with a scheduler interval of one second (Validate: the smallest
\* it accepts)
Init ==
    /\ SchedulerInterval = Second
    /\ elapsed = NotTimed /\ window = Duration
    /\ results = {"nil"}
    /\ Constructed

\* a Service with a scheduler interval above one minute
SlowInit ==
    /\ SchedulerInterval = Hour
    /\ elapsed = NotTimed /\ window = Duration
    /\ results = {"nil"}
    /\ Constructed

\* the test: a Service with a scheduler interval of one second on which job A
\* is going to be registered and its body starts counted for Duration
TestInit ==
    /\ SchedulerInterval = Second
    /\ elapsed = Armed /\ window = Duration
    /\ results = {"nil"}
    /\ Constructed

\* the test on a Service whose scheduler interval is one minute, with job A
\* watched for LongDuration
PacedInit ==
    /\ SchedulerInterval = Minute
    /\ elapsed = Armed /\ window = LongDuration
    /\ results = {"nil"}
    /\ Constructed

\* a Service whose SchedulerInterval was left at the zero value: the host
\* did not call Validate, and neither AddJob nor ServeContext looks at it
ZeroInit ==
    /\ SchedulerInterval = 0
    /\ elapsed = NotTimed /\ window = Duration
    /\ results = {"nil"}
    /\ Constructed

\* a Service with the default scheduler interval, in a process that has
\* another Service and uses the package-level AddJob
GlobalInit ==
    /\ SchedulerInterval = Minute
    /\ elapsed = NotTimed /\ window = Duration
    /\ results = {"nil"}
    /\ Constructed

\* a Service whose job bodies may return an error
FailInit ==
    /\ SchedulerInterval = Second
    /\ elapsed = NotTimed /\ window = Duration
    /\ results = {"nil", "error"}
    /\ Constructed

\* ---- helpers ------------------------------------------------------------

\* a counter that stops counting at its bound: max stands for "max or more"
Inc(n, max) == IF n < max THEN n + 1 ELSE max

\* the values a counter may take when one is taken off
Dec(n, max) == IF n = max THEN {max - 1, max} ELSE {n - 1}

\* t.After(u)
After(t, u) == t > u

\* a stored time after the clock has advanced by one unit; a time that lies
\* `floor` in the past is not followed further
Elapse(t, floor) ==
    IF t = maxTime \/ t = ZeroTime \/ t <= floor THEN t ELSE t - 1

\* the ids held in a sequence
Range(s) == {s[k] : k \in 1..Len(s)}

\* ids of the References AddJob has returned so far
Allocated == {r \in Refs : refs[r].alloc}

\* ctx.Err() # nil for a derived context: canceled itself or through its parent
CtxErr(ref) == ref.ctx = "canceled" \/ (ref.ctx = "live" /\ rootCanceled)

\* ---- options (cron options file) -----------------------------------------

None == 0 - 1     \* a numeric option that was not passed
NoMode == "none"  \* WithIntervalMode was not passed

\* An Option is kept as the name of its constructor and the argument the
\* closure captured.  A name is a sequence of characters; the Reference's
\* name only shows in log records and is not kept.
Option(kind, num, mode, name) ==
    [kind |-> kind, num |-> num, mode |-> mode, name |-> name]
WithMaxRun(maxRun) == Option("WithMaxRun", maxRun, NoMode, <<>>)
WithInterval(interval) == Option("WithInterval", interval, NoMode, <<>>)
WithIntervalMode(mode) == Option("WithIntervalMode", 0, mode, <<>>)
WithStopAfter(stopAfter) == Option("WithStopAfter", stopAfter, NoMode, <<>>)
WithName(name) == Option("WithName", 0, NoMode, name)

\* strings.Trim(name, " \t\r\n") == ""
Cutset == {" ", "\t", "\r", "\n"}
TrimIsEmpty(name) == \A k \in 1..Len(name) : name[k] \in Cutset

\* mutant: WithStopAfter accepts every deadline
OptionErrNoStopAfterTest(o) ==
    CASE o.kind = "WithInterval" /\ o.num < Minute -> "ErrIntervalTooShort"
      [] o.kind = "WithName" /\ TrimIsEmpty(o.name) -> "name cannot be empty"
      [] OTHER -> "nil"

\* the error the option returns when it is applied, "nil" for none
OptionErr(o) ==
    CASE o.kind = "WithInterval" /\ o.num < Minute -> "ErrIntervalTooShort"
      [] o.kind = "WithStopAfter" /\ o.num < now + Hour -> "stopAfter too early"
      [] o.kind = "WithName" /\ TrimIsEmpty(o.name) -> "name cannot be empty"
      [] OTHER -> "nil"

\* the Reference after the option has been applied without an error
OptionSets(ref, o) ==
    CASE o.kind = "WithMaxRun" -> [ref EXCEPT !.maxRun = o.num]
      [] o.kind = "WithInterval" -> [ref EXCEPT !.interval = o.num]
      [] o.kind = "WithIntervalMode" -> [ref EXCEPT !.mode = o.mode]
      [] o.kind = "WithStopAfter" -> [ref EXCEPT !.stopAfter = o.num]
      [] OTHER -> ref

\* mutant: the loop over the options goes on after an error and returns the
\* error of the last option that failed
RECURSIVE ApplyAllOptions(_, _)
ApplyAllOptions(ref, opts) ==
    IF opts = <<>> THEN [ref |-> ref, err |-> "nil"]
    ELSE LET rest == ApplyAllOptions(
                         IF OptionErr(Head(opts)) = "nil"
                         THEN OptionSets(ref, Head(opts)) ELSE ref,
                         Tail(opts))
         IN  IF rest.err = "nil"
             THEN [ref |-> rest.ref, err |-> OptionErr(Head(opts))]
             ELSE rest

\* for _, opt := range opts: the Reference built and the first error
RECURSIVE ApplyOptions(_, _)
ApplyOptions(ref, opts) ==
    IF opts = <<>> THEN [ref |-> ref, err |-> "nil"]
    ELSE IF OptionErr(Head(opts)) # "nil"
         THEN [ref |-> ref, err |-> OptionErr(Head(opts))]
         ELSE ApplyOptions(OptionSets(ref, Head(opts)), Tail(opts))

\* the arguments of AddJob that are tried: every combination of the values
\* the options accept, and calls with options that are rejected, alone, after
\* an accepted option and in both orders
Ats == {now, now + Minute}
MaxRunOpts == {None, MaxMaxRun}
IntervalOpts == {None, Minute}
ModeOpts == {NoMode, BetweenRuns}
StopOpts == {None, now + Hour}
OptionsOf(mr, iv, md, sa) ==
    (IF mr = None THEN <<>> ELSE <<WithMaxRun(mr)>>)
    \o (IF iv = None THEN <<>> ELSE <<WithInterval(iv)>>)
    \o (IF md = NoMode THEN <<>> ELSE <<WithIntervalMode(md)>>)
    \o (IF sa = None THEN <<>> ELSE <<WithStopAfter(sa)>>)
AcceptedOptions ==
    {OptionsOf(mr, iv, md, sa) :
        mr \in MaxRunOpts, iv \in IntervalOpts, md \in ModeOpts, sa \in StopOpts}
    \cup {<<WithStopAfter(now + Hour), WithInterval(Minute)>>,
          <<WithInterval(Hour)>>,
          <<WithName(<<"j", "o", "b", "A">>)>>}
RejectedOptions ==
    {<<WithInterval(Second)>>,
     <<WithName(<<" ", "\t">>)>>,
     <<WithInterval(Second), WithStopAfter(now + Hour - 1)>>,
     <<WithStopAfter(now + Hour - 1), WithInterval(Second)>>,
     <<WithInterval(Minute), WithName(<<" ">>), WithInterval(Second)>>}
\* deadlines that have passed, and the zero time.Time passed as a deadline
PastDeadlines ==
    {<<WithStopAfter(now - Second)>>,
     <<WithStopAfter(now)>>,
     <<WithStopAfter(ZeroTime)>>}
AddJobArgs ==
    (Ats \X AcceptedOptions)
    \cup ({now} \X RejectedOptions)
    \cup ({now} \X PastDeadlines)

\* a Reference registered without any option
Plain(ref) ==
    /\ ref.interval = SchedulerInterval
    /\ ref.mode = OnTick
    /\ ref.maxRun = 0
    /\ ref.stopAfter = ZeroTime

\* mutant: the first run is put one scheduler interval after `at`
BaseRefFirstRunLater(at) ==
    [alloc |-> TRUE,
     nextRun |-> at + SchedulerInterval,
     stopAfter |-> ZeroTime,
     interval |-> SchedulerInterval,
     mode |-> OnTick,
     runCount |-> 0,
     maxRun |-> 0,
     lastRun |-> ZeroTime,
     ctx |-> "nil"]

\* r := &Reference{...}; r.nextRun.Store(&at)
BaseRef(at) ==
    [alloc |-> TRUE,
     nextRun |-> at,
     stopAfter |-> ZeroTime,
     interval |-> SchedulerInterval,
     mode |-> OnTick,
     runCount |-> 0,
     maxRun |-> 0,
     lastRun |-> ZeroTime,
     ctx |-> "nil"]

\* the Reference AddJob builds before taking the lock (options applied)
NewRef(at, opts) == ApplyOptions(BaseRef(at), opts).ref

\* the test registers its jobs on a serving Service, eligible at once, in
\* OnTick mode and without a deadline
TestJob(at, opts) ==
    /\ sctx # "nil"
    /\ at = now
    /\ NewRef(at, opts).mode = OnTick
    /\ NewRef(at, opts).stopAfter = ZeroTime

\* the registrations that are tried: a run registers either one Reference,
\* with any of the options above (an interval of one hour: in the test
\* only), or several References without options (on the Service with a
\* scheduler interval of one second, outside the test, with job bodies that
\* do not fail)
Tried(id, at, opts) ==
    \/ id = 1 /\ elapsed = NotTimed /\ opts # <<WithInterval(Hour)>>
    \/ id = 1 /\ elapsed = Armed /\ TestJob(at, opts)
    \/ /\ id > 1
       /\ elapsed = NotTimed /\ SchedulerInterval = Second
       /\ results = {"nil"}
       /\ \A r \in Allocated : Plain(refs[r])
       /\ at = now /\ Plain(NewRef(at, opts))

\* the calls of AddJob that are tried in a state: all of them for the first
\* Reference; for a later one, which is registered without options, the
\* call without options and the calls that are rejected
TriedArgs ==
    IF Cardinality(Allocated) = 0 THEN AddJobArgs
    ELSE {now} \X ({<<>>} \cup RejectedOptions)

\* mutant: AddJob does not look at the done flag
AddJobErrNoDone(at, opts) ==
    LET res == ApplyOptions(BaseRef(at), opts)
    IN  IF res.err # "nil" THEN res.err
        ELSE IF res.ref.interval < SchedulerInterval
             THEN "ErrIntervalTooShort"
        ELSE "nil"

\* mutant: AddJob does not compare the interval with SchedulerInterval
AddJobErrNoIntervalTest(at, opts) ==
    LET res == ApplyOptions(BaseRef(at), opts)
    IN  IF res.err # "nil" THEN res.err
        ELSE IF done THEN "service has already shut down"
        ELSE "nil"

\* the error AddJob returns, "nil" for none
AddJobErr(at, opts) ==
    LET res == ApplyOptions(BaseRef(at), opts)
    IN  IF res.err # "nil" THEN res.err
        ELSE IF res.ref.interval < SchedulerInterval
             THEN "ErrIntervalTooShort"
        ELSE IF done THEN "service has already shut down"
        ELSE "nil"

\* mutant: AddJob never derives a context
AddJobCtxNever == "nil"

\* the context AddJob gives the new Reference
AddJobCtx == IF sctx # "nil" THEN "live" ELSE "nil"

\* the id of the Reference the next successful AddJob creates
NextId == Cardinality(Allocated) + 1

\* mutant: the Reference is appended before the done flag is tested
AddJobJobsBeforeDone(at, opts) ==
    IF AddJobErr(at, opts) \in {"nil", "service has already shut down"}
    THEN Append(jobs, NextId)
    ELSE jobs

\* the registry after AddJob
AddJobJobs(at, opts) ==
    IF AddJobErr(at, opts) = "nil" THEN Append(jobs, NextId) ELSE jobs

\* the References after AddJob
AddJobRefs(at, opts) ==
    IF AddJobErr(at, opts) = "nil"
    THEN [r \in Refs |->
             IF r = NextId THEN [NewRef(at, opts) EXCEPT !.ctx = AddJobCtx]
             ELSE refs[r]]
    ELSE refs

\* ---- Service.AddJob -----------------------------------------------------
AddJob(at, opts) ==
    /\ ~crashed
    /\ done => mtx = "free"
    /\ LET err == AddJobErr(at, opts)
       IN  /\ err = "nil" => /\ mtx = "free"
                             /\ NextId \in Refs
                             /\ Tried(NextId, at, opts)
           /\ elapsed' = IF err = "nil" /\ elapsed = Armed
                         THEN 0 ELSE elapsed
    /\ refs' = AddJobRefs(at, opts)
    /\ jobs' = AddJobJobs(at, opts)
    /\ UNCHANGED <<fwVars, SchedulerInterval, scheduler, otherJobs,
                   results, failed, window, countA,
                   sctx, rootCanceled, done, mtx, pc, idx, timer,
                   inflight, queued, doneAt, crashed>>

\* ---- Service.Initialize and the package-level AddJob ---------------------

\* the Services of the process: the one whose fields are the variables
\* above, and another one, which is never served and of which only the size
\* of the registry is kept; both have the same SchedulerInterval
Served == "served"
Other == "other"
Services == {Served, Other}

\* mutant: Initialize binds the Service that called it last
InitializeSchedulerLast(s) == s

\* the package's scheduler after s.Initialize()
InitializeScheduler(s) == IF scheduler # "nil" THEN scheduler ELSE s

\* Service.Initialize
Initialize(s) ==
    /\ ~crashed
    /\ scheduler' = InitializeScheduler(s)
    /\ UNCHANGED <<fwVars, SchedulerInterval, otherJobs, results, failed,
                   elapsed, window, countA,
                   refs, jobs, sctx, rootCanceled, done, mtx, pc, idx, timer,
                   inflight, queued, doneAt, crashed>>

\* the error AddJob of the other Service returns: it has not shut down
OtherAddJobErr(at, opts) ==
    LET res == ApplyOptions(BaseRef(at), opts)
    IN  IF res.err # "nil" THEN res.err
        ELSE IF res.ref.interval < SchedulerInterval
             THEN "ErrIntervalTooShort"
        ELSE "nil"

\* the error the package-level AddJob returns
PkgAddJobErr(at, opts) ==
    IF scheduler = "nil" THEN "cron service not initialized"
    ELSE IF scheduler = Served THEN AddJobErr(at, opts)
    ELSE OtherAddJobErr(at, opts)

\* the registry of the served Service after the package-level AddJob
PkgAddJobJobs(at, opts) ==
    IF scheduler = Served THEN AddJobJobs(at, opts) ELSE jobs

\* the References of the served Service after the package-level AddJob
PkgAddJobRefs(at, opts) ==
    IF scheduler = Served THEN AddJobRefs(at, opts) ELSE refs

\* the registry of the other Service after the package-level AddJob
PkgAddJobOther(at, opts) ==
    IF scheduler = Other /\ OtherAddJobErr(at, opts) = "nil"
    THEN Inc(otherJobs, MaxOtherJobs)
    ELSE otherJobs

\* the package-level AddJob: s := scheduler; s.AddJob(job, at, opts...)
PkgAddJob(at, opts) ==
    \/ /\ scheduler = Served
       /\ AddJob(at, opts)
    \/ /\ scheduler # Served
       /\ ~crashed
       /\ otherJobs' = PkgAddJobOther(at, opts)
       /\ UNCHANGED <<fwVars, SchedulerInterval, scheduler, results, failed,
                      elapsed, window, countA,
                      refs, jobs, sctx, rootCanceled, done, mtx, pc, idx,
                      timer, inflight, queued, doneAt, crashed>>

\* ---- Service.cancelJob --------------------------------------------------

\* mutant: the loop of cancelJob falls through with the last index
IndexOfOrLast(s, r) ==
    IF r \in Range(s) THEN CHOOSE k \in 1..Len(s) :
                               s[k] = r /\ \A j \in 1..(k - 1) : s[j] # r
    ELSE Len(s)

\* position of r in s (0 when absent): the loop of cancelJob
IndexOf(s, r) ==
    IF r \in Range(s) THEN CHOOSE k \in 1..Len(s) :
                               s[k] = r /\ \A j \in 1..(k - 1) : s[j] # r
    ELSE 0

\* mutant: the last element is dropped without being moved to position k
SwapRemoveNoSwap(s, k) == SubSeq(s, 1, Len(s) - 1)

\* mutant: the last element is copied to position k and not dropped
SwapRemoveKeepsLast(s, k) == [s EXCEPT ![k] = s[Len(s)]]

\* swap the last element into position k and drop the last
SwapRemove(s, k) ==
    LET moved == [s EXCEPT ![k] = s[Len(s)]]
    IN  SubSeq(moved, 1, Len(s) - 1)

\* cancelJob finds r and removes it (FALSE: it returns without a change)
CancelFinds(r) == ~done /\ IndexOf(jobs, r) # 0

\* the registry after cancelJob(r)
CancelJobs(r) ==
    IF CancelFinds(r) THEN SwapRemove(jobs, IndexOf(jobs, r)) ELSE jobs

\* r.cancel() is a nil func: the Reference has no derived context yet
CancelPanics(r) == CancelFinds(r) /\ refs[r].ctx = "nil"

\* mutant: cancelJob cancels the context of every registered Reference
CancelRefsAll(r) ==
    IF CancelFinds(r) /\ ~CancelPanics(r)
    THEN [q \in Refs |->
             IF q \in Range(jobs) THEN [refs[q] EXCEPT !.ctx = "canceled"]
             ELSE refs[q]]
    ELSE refs

\* mutant: cancelJob removes the Reference without calling r.cancel()
CancelRefsNone(r) == refs

\* the References after cancelJob(r): r.cancel() cancels r's context
CancelRefs(r) ==
    IF CancelFinds(r) /\ ~CancelPanics(r)
    THEN [refs EXCEPT ![r].ctx = "canceled"]
    ELSE refs

\* Reference.Cancel, called by a holder of r
Cancel(r) ==
    /\ ~crashed
    /\ r \in Allocated
    /\ mtx = "free"
    /\ jobs' = CancelJobs(r)
    /\ refs' = CancelRefs(r)
    /\ crashed' = CancelPanics(r)
    /\ UNCHANGED <<fwVars, SchedulerInterval, scheduler, otherJobs,
                   results, failed, elapsed, window, countA,
                   sctx, rootCanceled, done, mtx, pc, idx, timer,
                   inflight, queued, doneAt>>

\* mutant: the spawned cancelJob does not take the mutex
CancelQueuedNoLock(r) ==
    /\ ~crashed
    /\ queued[r] > 0
    /\ jobs' = CancelJobs(r)
    /\ refs' = CancelRefs(r)
    /\ crashed' = CancelPanics(r)
    /\ \E n \in Dec(queued[r], MaxQueued) : queued' = [queued EXCEPT ![r] = n]
    /\ UNCHANGED <<fwVars, SchedulerInterval, scheduler, otherJobs,
                   results, failed, elapsed, window, countA,
                   sctx, rootCanceled, done, mtx, pc, idx, timer,
                   inflight, doneAt>>

\* a `go r.svc.cancelJob(r)` spawned by run() gets the lock
CancelQueued(r) ==
    /\ ~crashed
    /\ queued[r] > 0
    /\ mtx = "free"
    /\ jobs' = CancelJobs(r)
    /\ refs' = CancelRefs(r)
    /\ crashed' = CancelPanics(r)
    /\ \E n \in Dec(queued[r], MaxQueued) : queued' = [queued EXCEPT ![r] = n]
    /\ UNCHANGED <<fwVars, SchedulerInterval, scheduler, otherJobs,
                   results, failed, elapsed, window, countA,
                   sctx, rootCanceled, done, mtx, pc, idx, timer,
                   inflight, doneAt>>

\* ---- Reference.run ------------------------------------------------------

\* mutant: the exhaustion test is off by one
ExhaustedOffByOne(ref) == ref.maxRun > 0 /\ ref.runCount > ref.maxRun

\* maxRun > 0 && runCount >= maxRun
Exhausted(ref) == ref.maxRun > 0 /\ ref.runCount >= ref.maxRun

\* mutant: run() does not look at nextRun
NotDueNever(ref) == FALSE

\* nextRun.After(now)
NotDue(ref) == After(ref.nextRun, now)

\* mutant: the deadline is compared without the IsZero test
ExpiredNoZeroCheck(ref) == After(now, ref.stopAfter)

\* !stopAfter.IsZero() && now.After(stopAfter)
Expired(ref) == ref.stopAfter # ZeroTime /\ After(now, ref.stopAfter)

\* mutant: an exhausted Reference returns false without spawning cancelJob
RunQueuesCancelNoExhaust(ref) == ~Exhausted(ref) /\ ~NotDue(ref) /\ Expired(ref)

\* mutant: run() leaves a Reference alone while a job body is running
RunQueuesCancelWhenIdle(ref) ==
    /\ \A q \in Refs : inflight[q] = 0
    /\ \/ Exhausted(ref)
       \/ ~Exhausted(ref) /\ ~NotDue(ref) /\ Expired(ref)

\* run() spawns `go r.svc.cancelJob(r)` and returns false
RunQueuesCancel(ref) ==
    \/ Exhausted(ref)
    \/ ~Exhausted(ref) /\ ~NotDue(ref) /\ Expired(ref)

\* mutant: a job is only started while no job body is running
RunTriggersWhenIdle(ref) ==
    /\ ~Exhausted(ref)
    /\ ~NotDue(ref)
    /\ ~Expired(ref)
    /\ ~CtxErr(ref)
    /\ \A q \in Refs : inflight[q] = 0

\* mutant: run() does not look at the context before it starts the job
RunTriggersNoCtx(ref) ==
    /\ ~Exhausted(ref)
    /\ ~NotDue(ref)
    /\ ~Expired(ref)

\* run() reaches "time to run the job" and returns true
RunTriggers(ref) ==
    /\ ~Exhausted(ref)
    /\ ~NotDue(ref)
    /\ ~Expired(ref)
    /\ ~CtxErr(ref)

\* mutant: BetweenRuns is scheduled like OnTick, without the sentinel
NextRunAtTriggerNoSentinel(ref) ==
    IF ref.interval > 0 THEN now + ref.interval ELSE ref.nextRun

\* mutant: the next slot is one scheduler interval, not one interval of the
\* Reference, after the trigger
NextRunAtTriggerNextTick(ref) ==
    IF ref.interval > 0
    THEN IF ref.mode = OnTick THEN now + SchedulerInterval ELSE maxTime
    ELSE ref.nextRun

\* nextRun as run() leaves it when it triggers
NextRunAtTrigger(ref) ==
    IF ref.interval > 0
    THEN IF ref.mode = OnTick THEN now + ref.interval ELSE maxTime
    ELSE ref.nextRun

\* mutant: the trigger does not count the run
TriggeredNoCount(ref) ==
    [ref EXCEPT !.lastRun = now,
                !.nextRun = NextRunAtTrigger(ref)]

\* mutant: the trigger does not store the next slot
TriggeredKeepsNextRun(ref) ==
    [ref EXCEPT !.runCount = Inc(@, RunCap(ref)),
                !.lastRun = now]

\* the Reference after a trigger
Triggered(ref) ==
    [ref EXCEPT !.runCount = Inc(@, RunCap(ref)),
                !.lastRun = now,
                !.nextRun = NextRunAtTrigger(ref)]

\* mutant: the goroutine makes the job due as soon as the body returns
NextRunAtReturnNoInterval(ref) ==
    IF ref.interval > 0 /\ ref.mode = BetweenRuns
    THEN now
    ELSE ref.nextRun

\* nextRun as the job goroutine leaves it when the body returns
NextRunAtReturn(ref) ==
    IF ref.interval > 0 /\ ref.mode = BetweenRuns
    THEN now + ref.interval
    ELSE ref.nextRun

\* ---- Service.ServeContext ------------------------------------------------

\* entry: bind the root context and derive a context for every registered job
ServeStart ==
    /\ ~crashed
    /\ pc = "idle"
    /\ mtx = "free"
    /\ sctx' = "set"
    /\ refs' = [r \in Refs |->
                   IF r \in Range(jobs) THEN [refs[r] EXCEPT !.ctx = "live"]
                   ELSE refs[r]]
    /\ timer' = SchedulerInterval
    /\ pc' = "lock"
    /\ UNCHANGED <<fwVars, SchedulerInterval, scheduler, otherJobs,
                   results, failed, elapsed, window, countA,
                   jobs, rootCanceled, done, mtx, idx, inflight, queued,
                   doneAt, crashed>>

\* s.mtx.Lock() before the iteration over the jobs
TickLock ==
    /\ ~crashed
    /\ pc = "lock"
    /\ mtx = "free"
    /\ mtx' = "loop"
    /\ idx' = 1
    /\ pc' = "iter"
    /\ UNCHANGED <<fwVars, SchedulerInterval, scheduler, otherJobs,
                   results, failed, elapsed, window, countA,
                   refs, jobs, sctx, rootCanceled, done, timer,
                   inflight, queued, doneAt, crashed>>

\* the test counts the body starts of job A until the window has gone by
Counted(r) == r = 1 /\ elapsed >= 0 /\ elapsed <= window

\* mutant: run() calls cancelJob itself; cancelJob waits for the mutex, which
\* the iteration holds
TickRunSyncCancel ==
    /\ ~crashed
    /\ pc = "iter"
    /\ idx <= Len(jobs)
    /\ RunQueuesCancel(refs[jobs[idx]]) => mtx = "free"
    /\ LET r == jobs[idx]
           ref == refs[r]
       IN  /\ refs' = IF RunTriggers(ref)
                      THEN [refs EXCEPT ![r] = Triggered(ref)]
                      ELSE refs
           /\ inflight' = IF RunTriggers(ref)
                          THEN [inflight EXCEPT ![r] = Inc(@, MaxInflight)]
                          ELSE inflight
           /\ doneAt' = IF RunTriggers(ref)
                        THEN [doneAt EXCEPT ![r] = ZeroTime]
                        ELSE doneAt
           /\ countA' = IF RunTriggers(ref) /\ Counted(r)
                        THEN countA + 1
                        ELSE countA
    /\ idx' = idx + 1
    /\ UNCHANGED <<fwVars, SchedulerInterval, scheduler, otherJobs,
                   results, failed, elapsed, window,
                   jobs, sctx, rootCanceled, done, mtx, pc, timer, queued,
                   crashed>>

\* one pass of the loop body: s.jobs[i].run()
TickRun ==
    /\ ~crashed
    /\ pc = "iter"
    /\ idx <= Len(jobs)
    /\ LET r == jobs[idx]
           ref == refs[r]
       IN  /\ refs' = IF RunTriggers(ref)
                      THEN [refs EXCEPT ![r] = Triggered(ref)]
                      ELSE refs
           /\ inflight' = IF RunTriggers(ref)
                          THEN [inflight EXCEPT ![r] = Inc(@, MaxInflight)]
                          ELSE inflight
           /\ queued' = IF RunQueuesCancel(ref)
                        THEN [queued EXCEPT ![r] = Inc(@, MaxQueued)]
                        ELSE queued
           /\ doneAt' = IF RunTriggers(ref)
                        THEN [doneAt EXCEPT ![r] = ZeroTime]
                        ELSE doneAt
           /\ countA' = IF RunTriggers(ref) /\ Counted(r)
                        THEN countA + 1
                        ELSE countA
    /\ idx' = idx + 1
    /\ UNCHANGED <<fwVars, SchedulerInterval, scheduler, otherJobs,
                   results, failed, elapsed, window,
                   jobs, sctx, rootCanceled, done, mtx, pc, timer, crashed>>

\* s.mtx.Unlock() after the iteration; the loop reaches the select
TickUnlock ==
    /\ ~crashed
    /\ pc = "iter"
    /\ idx > Len(jobs)
    /\ mtx' = "free"
    /\ idx' = 0
    /\ pc' = "select"
    /\ UNCHANGED <<fwVars, SchedulerInterval, scheduler, otherJobs,
                   results, failed, elapsed, window, countA,
                   refs, jobs, sctx, rootCanceled, done, timer,
                   inflight, queued, doneAt, crashed>>

\* case <-timer.Done(): the timer context expired (or its parent was canceled)
SelectTimer ==
    /\ ~crashed
    /\ pc = "select"
    /\ timer = 0 \/ rootCanceled
    /\ timer' = SchedulerInterval
    /\ pc' = "lock"
    /\ UNCHANGED <<fwVars, SchedulerInterval, scheduler, otherJobs,
                   results, failed, elapsed, window, countA,
                   refs, jobs, sctx, rootCanceled, done, mtx, idx,
                   inflight, queued, doneAt, crashed>>

\* mutant: the shutdown returns without clearing the registry
SelectDoneKeepsJobs ==
    /\ ~crashed
    /\ pc = "select"
    /\ rootCanceled
    /\ mtx = "free"
    /\ done' = TRUE
    /\ refs' = [r \in Refs |->
                   IF r \in Range(jobs) THEN [refs[r] EXCEPT !.ctx = "canceled"]
                   ELSE refs[r]]
    /\ pc' = "returned"
    /\ UNCHANGED <<fwVars, SchedulerInterval, scheduler, otherJobs,
                   results, failed, elapsed, window, countA,
                   jobs, sctx, rootCanceled, mtx, idx, timer, inflight,
                   queued, doneAt, crashed>>

\* mutant: the shutdown waits until no job body is running
SelectDoneWaitsBodies ==
    /\ ~crashed
    /\ pc = "select"
    /\ rootCanceled
    /\ mtx = "free"
    /\ \A r \in Refs : inflight[r] = 0
    /\ done' = TRUE
    /\ refs' = [r \in Refs |->
                   IF r \in Range(jobs) THEN [refs[r] EXCEPT !.ctx = "canceled"]
                   ELSE refs[r]]
    /\ jobs' = <<>>
    /\ pc' = "returned"
    /\ UNCHANGED <<fwVars, SchedulerInterval, scheduler, otherJobs,
                   results, failed, elapsed, window, countA,
                   sctx, rootCanceled, mtx, idx, timer, inflight,
                   queued, doneAt, crashed>>

\* mutant: the shutdown leaves the References whose body is still running
\* in the registry
SelectDoneKeepsRunning ==
    /\ ~crashed
    /\ pc = "select"
    /\ rootCanceled
    /\ mtx = "free"
    /\ done' = TRUE
    /\ refs' = [r \in Refs |->
                   IF r \in Range(jobs) THEN [refs[r] EXCEPT !.ctx = "canceled"]
                   ELSE refs[r]]
    /\ jobs' = SelectSeq(jobs, LAMBDA r : inflight[r] > 0)
    /\ pc' = "returned"
    /\ UNCHANGED <<fwVars, SchedulerInterval, scheduler, otherJobs,
                   results, failed, elapsed, window, countA,
                   sctx, rootCanceled, mtx, idx, timer, inflight,
                   queued, doneAt, crashed>>

\* case <-ctx.Done(): shut down and return nil
SelectDone ==
    /\ ~crashed
    /\ pc = "select"
    /\ rootCanceled
    /\ mtx = "free"
    /\ done' = TRUE
    /\ refs' = [r \in Refs |->
                   IF r \in Range(jobs) THEN [refs[r] EXCEPT !.ctx = "canceled"]
                   ELSE refs[r]]
    /\ jobs' = <<>>
    /\ pc' = "returned"
    /\ UNCHANGED <<fwVars, SchedulerInterval, scheduler, otherJobs,
                   results, failed, elapsed, window, countA,
                   sctx, rootCanceled, mtx, idx, timer, inflight,
                   queued, doneAt, crashed>>

\* ---- the environment -----------------------------------------------------

\* mutant: the goroutine cancels the Reference when its body fails
BodyReturnsRefsErrCancels(r, err) ==
    IF err # "nil"
    THEN [refs EXCEPT ![r].ctx = "canceled"]
    ELSE [refs EXCEPT ![r].nextRun = NextRunAtReturn(refs[r])]

\* the References once the goroutine of a body of r that returned err is over
BodyReturnsRefs(r, err) ==
    [refs EXCEPT ![r].nextRun = NextRunAtReturn(refs[r])]

\* log.Error("job failed", ...) when the body returned an error
BodyReturnsLog(r, err) ==
    IF err # "nil" THEN [failed EXCEPT ![r] = TRUE] ELSE failed

\* a job body started by run() returns; the goroutine stores nextRun
BodyReturns(r) ==
    /\ ~crashed
    /\ inflight[r] > 0
    /\ \E n \in Dec(inflight[r], MaxInflight) :
           inflight' = [inflight EXCEPT ![r] = n]
    /\ \E err \in results :
           /\ refs' = BodyReturnsRefs(r, err)
           /\ failed' = BodyReturnsLog(r, err)
    /\ doneAt' = IF refs[r].mode = BetweenRuns
                 THEN [doneAt EXCEPT ![r] = now]
                 ELSE doneAt
    /\ UNCHANGED <<fwVars, SchedulerInterval, scheduler, otherJobs,
                   results, elapsed, window, countA,
                   jobs, sctx, rootCanceled, done, mtx, pc, idx, timer,
                   queued, crashed>>

\* the host cancels the context it passed (or will pass) to ServeContext
CancelRoot ==
    /\ ~crashed
    /\ ~rootCanceled
    /\ rootCanceled' = TRUE
    /\ UNCHANGED <<fwVars, SchedulerInterval, scheduler, otherJobs,
                   results, failed, elapsed, window, countA,
                   refs, jobs, sctx, done, mtx, pc, idx, timer,
                   inflight, queued, doneAt, crashed>>

\* the clock advances by one unit: every stored time is one unit older
Advance ==
    /\ ~crashed
    /\ timer' = IF timer > 0 THEN timer - 1 ELSE 0
    /\ refs' = [r \in Refs |->
                   [refs[r] EXCEPT !.nextRun = Elapse(@, now),
                                   !.stopAfter = Elapse(@, now - 1),
                                   !.lastRun =
                                       Elapse(@, now - refs[r].interval)]]
    /\ doneAt' = [r \in Refs |-> Elapse(doneAt[r], now - Minute)]
    /\ elapsed' = IF elapsed >= 0 THEN Inc(elapsed, window + 1) ELSE elapsed
    /\ UNCHANGED <<fwVars, SchedulerInterval, scheduler, otherJobs,
                   results, failed, window, countA,
                   jobs, sctx, rootCanceled, done, mtx, pc, idx,
                   inflight, queued, crashed>>

\* ---- the file watcher: AddWatcher, RemoveWatcher, PreRun, ServeContext ----

\* what os.Stat reports for a directory
StatResults == {"ok", "notexist", "permission", "other"}

\* the loop over s.f: the index of the first registration whose name equals
\* name ignoring case, 0 when there is none
FindReg(name) ==
    IF \E k \in 1..Len(f) : EqualFold(f[k].name, name)
    THEN CHOOSE k \in 1..Len(f) :
             /\ EqualFold(f[k].name, name)
             /\ \A j \in 1..(k - 1) : ~EqualFold(f[j].name, name)
    ELSE 0

\* make(chan []byte): the next channel, 0 when MaxChans have been made
MakeChan ==
    IF \E c \in Chans : chans[c] = "none"
    THEN CHOOSE c \in Chans :
             /\ chans[c] = "none"
             /\ \A d \in 1..(c - 1) : chans[d] # "none"
    ELSE 0

\* the Service as a call leaves it when it changes nothing
FwSame(err) ==
    [err |-> err, f |-> f, p |-> p, w |-> w, chans |-> chans,
     panic |-> FALSE]

\* AddWatcher(name, fqn), where os.Stat reports stat for the directory and
\* w.Add fails iff addErr: what it returns and how it leaves the Service
AddWatcherResult(name, fqn, stat, addErr) ==
    LET fp == Dir(fqn)
        ch == MakeChan
        reg == [name |-> name, defaultFilePath |-> fqn, ch |-> ch]
        p1 == [p EXCEPT ![fp] = @ + 1]
    IN
    IF FindReg(name) # 0 THEN FwSame("registration already exists")
    ELSE IF initialized = 1 THEN
        IF stat = "notexist" THEN FwSame("path does not exist")
        ELSE IF stat = "permission" THEN FwSame("path permission denied")
        ELSE IF stat # "ok" THEN FwSame("failed to check path")
        ELSE IF p1[fp] < 2 /\ addErr
        THEN [err |-> "failed to add file watcher",
              f |-> f, p |-> p1, w |-> w,
              chans |-> [chans EXCEPT ![ch] = "closed"],
              panic |-> FALSE]
        ELSE [err |-> "nil",
              f |-> Append(f, reg), p |-> p1,
              w |-> IF p1[fp] < 2 THEN [w EXCEPT !.paths = @ \cup {fp}]
                                  ELSE w,
              chans |-> [chans EXCEPT ![ch] = "open"],
              panic |-> FALSE]
    ELSE [err |-> "nil",
          f |-> Append(f, reg), p |-> p, w |-> w,
          chans |-> [chans EXCEPT ![ch] = "open"],
          panic |-> FALSE]

\* ServeContext holds s.mtx.RLock(): it is handling an event
RLocked == fwpc \in {"deliver", "send"}

AddWatcher(name, fqn, stat, addErr) ==
    /\ ~fwCrashed
    /\ ~RLocked
    /\ FindReg(name) # 0 \/ MakeChan # 0
    /\ LET res == AddWatcherResult(name, fqn, stat, addErr) IN
       /\ f' = res.f
       /\ p' = res.p
       /\ w' = res.w
       /\ chans' = res.chans
    /\ UNCHANGED <<cronVars, initialized, fwpc, fwEvent, fwi,
                   fwCanceled, fwCrashed>>

\* append(s.f[:i], s.f[i+1:]...)
RemoveAt(s, i) == SubSeq(s, 1, i - 1) \o SubSeq(s, i + 1, Len(s))

\* RemoveWatcher(name), where w.Remove fails iff rmErr: what it returns and
\* how it leaves the Service
RemoveWatcherResult(name, rmErr) ==
    LET i == FindReg(name) IN
    IF i = 0 THEN FwSame(<<"registration ", name, " not found">>)
    ELSE
        LET reg == f[i]
            fp == Dir(reg.defaultFilePath)
            p1 == IF initialized = 1 THEN [p EXCEPT ![fp] = @ - 1] ELSE p
            last == initialized = 1 /\ p1[fp] < 1
            p2 == IF last THEN [p1 EXCEPT ![fp] = 0] ELSE p1
        IN
        IF last /\ rmErr
        THEN [err |-> "failed to remove file watcher",
              f |-> RemoveAt(f, i), p |-> p2, w |-> w, chans |-> chans,
              panic |-> FALSE]
        ELSE [err |-> IF chans[reg.ch] = "closed" THEN "panic" ELSE "nil",
              f |-> RemoveAt(f, i), p |-> p2,
              w |-> IF last THEN [w EXCEPT !.paths = @ \ {fp}] ELSE w,
              chans |-> [chans EXCEPT ![reg.ch] = "closed"],
              panic |-> chans[reg.ch] = "closed"]

RemoveWatcher(name, rmErr) ==
    /\ ~fwCrashed
    /\ ~RLocked
    /\ LET res == RemoveWatcherResult(name, rmErr) IN
       /\ f' = res.f
       /\ p' = res.p
       /\ w' = res.w
       /\ chans' = res.chans
       /\ fwCrashed' = res.panic
    /\ UNCHANGED <<cronVars, initialized, fwpc, fwEvent, fwi, fwCanceled>>

\* the loop of PreRun from registration k on, where os.Stat reports stats[d]
\* for directory d and w.Add fails for the directories in unwatchable
RECURSIVE PreRunLoop(_, _, _, _, _)
PreRunLoop(k, pp, paths, stats, unwatchable) ==
    IF k > Len(f) THEN [err |-> "nil", p |-> pp, paths |-> paths]
    ELSE
        LET fp == Dir(f[k].defaultFilePath)
            p1 == [pp EXCEPT ![fp] = @ + 1]
        IN
        IF stats[fp] = "notexist"
        THEN [err |-> "path does not exist", p |-> pp, paths |-> paths]
        ELSE IF stats[fp] # "ok"
        THEN [err |-> "failed to check path", p |-> pp, paths |-> paths]
        ELSE IF p1[fp] < 2 /\ fp \in unwatchable
        THEN [err |-> "failed to add file watcher", p |-> p1,
              paths |-> paths]
        ELSE PreRunLoop(k + 1, p1,
                        IF p1[fp] < 2 THEN paths \cup {fp} ELSE paths,
                        stats, unwatchable)

\* PreRun, where fsnotify.NewWatcher fails iff newErr
PreRunResult(newErr, stats, unwatchable) ==
    IF newErr
    THEN [err |-> "failed to create file watcher", p |-> p,
          w |-> [state |-> "nil", paths |-> {}]]
    ELSE LET res == PreRunLoop(1, p, {}, stats, unwatchable) IN
         [err |-> res.err, p |-> res.p,
          w |-> [state |-> "open", paths |-> res.paths]]

PreRun(newErr, stats, unwatchable) ==
    /\ ~fwCrashed
    /\ fwpc = "new"
    /\ LET res == PreRunResult(newErr, stats, unwatchable) IN
       /\ p' = res.p
       /\ w' = res.w
       /\ initialized' = IF res.err = "nil" THEN 1 ELSE initialized
       /\ fwpc' = IF res.err = "nil" THEN "ready" ELSE "failed"
    /\ UNCHANGED <<cronVars, f, chans, fwEvent, fwi, fwCanceled, fwCrashed>>

\* the host cancels the context passed to the file watcher's ServeContext
FwCancel ==
    /\ ~fwCrashed
    /\ ~fwCanceled
    /\ fwCanceled' = TRUE
    /\ UNCHANGED <<cronVars, f, p, w, initialized, chans, fwpc, fwEvent, fwi,
                   fwCrashed>>

\* the channels of the registrations in s, closed
CloseAll(s) ==
    [c \in Chans |->
        IF \E k \in 1..Len(s) : s[k].ch = c THEN "closed" ELSE chans[c]]

\* ServeContext takes the case <-ctx.Done(), closes the channel of every
\* registration, closes the watcher and returns
FwServeDone ==
    /\ ~fwCrashed
    /\ fwpc = "ready" /\ fwCanceled
    /\ chans' = CloseAll(f)
    /\ fwCrashed' = \E k \in 1..Len(f) : chans[f[k].ch] = "closed"
    /\ w' = [w EXCEPT !.state = "closed"]
    /\ fwpc' = "returned"
    /\ UNCHANGED <<cronVars, f, p, initialized, fwEvent, fwi, fwCanceled>>

Next ==
    \/ \E a \in TriedArgs : AddJob(a[1], a[2])
    \/ \E r \in Refs : Cancel(r)
    \/ \E r \in Refs : CancelQueued(r)
    \/ ServeStart
    \/ TickLock
    \/ TickRun
    \/ TickUnlock
    \/ SelectTimer
    \/ SelectDone
    \/ \E r \in Refs : BodyReturns(r)
    \/ CancelRoot
    \/ Advance

Spec == Init /\ [][Next]_vars

TestSpec == TestInit /\ [][Next]_vars

\* The loop on time: locking, the calls of run() and the wake-up of the
\* select take no time that counts, so the clock advances only while the
\* loop waits for its timer (or while ServeContext is not running).
LoopWaits ==
    \/ pc \in {"idle", "returned"}
    \/ pc = "select" /\ timer > 0 /\ ~rootCanceled

AdvanceOnTime == LoopWaits /\ Advance

PacedNext ==
    \/ \E a \in TriedArgs : AddJob(a[1], a[2])
    \/ \E r \in Refs : Cancel(r)
    \/ \E r \in Refs : CancelQueued(r)
    \/ ServeStart
    \/ TickLock
    \/ TickRun
    \/ TickUnlock
    \/ SelectTimer
    \/ SelectDone
    \/ \E r \in Refs : BodyReturns(r)
    \/ CancelRoot
    \/ AdvanceOnTime

PacedSpec == PacedInit /\ [][PacedNext]_vars

SlowSpec == SlowInit /\ [][Next]_vars

FailSpec == FailInit /\ [][Next]_vars

ZeroSpec == ZeroInit /\ [][Next]_vars

\* a process that also calls Initialize and the package-level AddJob
GlobalNext ==
    \/ Next
    \/ \E s \in Services : Initialize(s)
    \/ \E a \in TriedArgs : PkgAddJob(a[1], a[2])

GlobalSpec == GlobalInit /\ [][GlobalNext]_vars

\* the fsnotify events tried: a write to a file, the creation of the
\* Kubernetes "..data" link in a directory, and a chmod of a file
FwEvents ==
    {[op |-> "Write", name |-> fqn] : fqn \in Files}
        \cup {[op |-> "Create", name |-> Append(d, "..data")] : d \in Dirs}
        \cup {[op |-> "Chmod", name |-> <<"d", "x">>]}

\* event.Op.Has(fsnotify.Create) && strings.HasSuffix(event.Name, "/..data")
OnKubernetes(ev) ==
    ev.op = "Create" /\ Len(ev.name) > 1 /\ ev.name[Len(ev.name)] = "..data"

\* the filter of the loop over s.f: the event is for registration reg
EventMatches(ev, reg) ==
    IF OnKubernetes(ev)
    THEN EqualFold(Dir(ev.name), Dir(reg.defaultFilePath))
    ELSE EqualFold(ev.name, reg.defaultFilePath)

\* case event := <-s.w.Events, for an event of a watched directory: an
\* event that is neither a write nor a create is dropped, any other is
\* handled under s.mtx.RLock()
FwEvent(ev) ==
    /\ ~fwCrashed
    /\ fwpc = "ready"
    /\ w.state = "open"
    /\ Dir(ev.name) \in w.paths
    /\ IF ev.op \in {"Write", "Create"}
       THEN /\ fwEvent' = ev
            /\ fwi' = 1
            /\ fwpc' = "deliver"
       ELSE UNCHANGED <<fwEvent, fwi, fwpc>>
    /\ UNCHANGED <<cronVars, f, p, w, initialized, chans, fwCanceled,
                   fwCrashed>>

\* one pass of the loop over s.f, where os.ReadFile fails iff readErr: a
\* registration the event is not for, or whose file cannot be read, is
\* passed over; for any other the file's content is sent on its channel
\* (a send on a closed channel panics)
FwDeliver(readErr) ==
    /\ ~fwCrashed
    /\ fwpc = "deliver"
    /\ fwi <= Len(f)
    /\ IF ~EventMatches(fwEvent, f[fwi]) \/ readErr
       THEN /\ fwi' = fwi + 1
            /\ UNCHANGED <<fwpc, fwCrashed>>
       ELSE IF chans[f[fwi].ch] # "open"
       THEN /\ fwCrashed' = TRUE
            /\ UNCHANGED <<fwpc, fwi>>
       ELSE /\ fwpc' = "send"
            /\ UNCHANGED <<fwi, fwCrashed>>
    /\ UNCHANGED <<cronVars, f, p, w, initialized, chans, fwEvent,
                   fwCanceled>>

\* the consumer of the registration's channel receives: `reg.ch <- b` returns
FwReceive ==
    /\ ~fwCrashed
    /\ fwpc = "send"
    /\ fwi' = fwi + 1
    /\ fwpc' = "deliver"
    /\ UNCHANGED <<cronVars, f, p, w, initialized, chans, fwEvent,
                   fwCanceled, fwCrashed>>

\* the loop over s.f is over: s.mtx.RUnlock(), back to the select
FwEventEnd ==
    /\ ~fwCrashed
    /\ fwpc = "deliver"
    /\ fwi > Len(f)
    /\ fwEvent' = NoEvent
    /\ fwi' = 0
    /\ fwpc' = "ready"
    /\ UNCHANGED <<cronVars, f, p, w, initialized, chans, fwCanceled,
                   fwCrashed>>

\* the calls of AddWatcher tried: every name, path, os.Stat result and w.Add
\* result, an input the call does not read (the path and os.Stat for a name
\* that exists, os.Stat before PreRun, w.Add when it is not called) being
\* held at one value
AddWatcherArgs ==
    {a \in Names \X Files \X StatResults \X BOOLEAN :
        /\ FindReg(a[1]) # 0 => a[2] = <<"d", "x">>
        /\ FindReg(a[1]) # 0 \/ initialized = 0 => a[3] = "ok"
        /\ a[3] # "ok" \/ initialized = 0 \/ p[Dir(a[2])] > 0 => ~a[4]}

\* a process that uses the file watcher: its host calls PreRun and
\* ServeContext, and callers add and remove watchers at any time
WatchNext ==
    \/ \E a \in AddWatcherArgs : AddWatcher(a[1], a[2], a[3], a[4])
    \/ \E name \in Names, rmErr \in BOOLEAN : RemoveWatcher(name, rmErr)
    \/ \E newErr \in BOOLEAN, stats \in [Dirs -> StatResults \ {"permission"}],
          unwatchable \in SUBSET Dirs : PreRun(newErr, stats, unwatchable)
    \/ FwCancel
    \/ \E ev \in FwEvents : FwEvent(ev)
    \/ \E readErr \in BOOLEAN : FwDeliver(readErr)
    \/ FwReceive
    \/ FwEventEnd
    \/ FwServeDone

WatchSpec == Init /\ [][WatchNext]_vars

\* The goroutine of ServeContext keeps running: it goes on with the loop over
\* s.f and leaves it at its end, and a select whose case <-ctx.Done() is
\* ready again and again takes it in the end.  Nothing makes the consumer of
\* a registration's channel receive, and nothing makes callers call.
WatchFairness ==
    /\ WF_vars(\E readErr \in BOOLEAN : FwDeliver(readErr))
    /\ WF_vars(FwEventEnd)
    /\ SF_vars(FwServeDone)

WatchFairSpec == WatchSpec /\ WatchFairness

\* a Service that is served and left to itself: no holder of a Reference
\* calls Cancel, and the host does not cancel the root context
AutoNext ==
    \/ \E a \in TriedArgs : AddJob(a[1], a[2])
    \/ \E r \in Refs : CancelQueued(r)
    \/ ServeStart
    \/ TickLock
    \/ TickRun
    \/ TickUnlock
    \/ SelectTimer
    \/ \E r \in Refs : BodyReturns(r)
    \/ Advance

AutoSpec == Init /\ [][AutoNext]_vars

\* The scheduling the Go runtime gives the program: the loop goroutine and
\* the clock keep going, and a goroutine waiting for the mutex gets it in the
\* end (sync.Mutex hands the lock to a starving waiter).  Nothing obliges a
\* job body to return, a holder to call Cancel, or the host to shut down.
Fairness ==
    /\ WF_vars(TickLock)
    /\ WF_vars(TickRun)
    /\ WF_vars(TickUnlock)
    /\ WF_vars(SelectTimer)
    /\ WF_vars(Advance)
    /\ \A r \in Refs : SF_vars(CancelQueued(r))

FairSpec == Spec /\ Fairness

\* The select statement picks among its ready cases at random: when the root
\* context is canceled both cases are ready at every pass of the loop, and the
\* shutdown case is not passed over for ever.
SelectFairness == SF_vars(SelectDone)

ServeFairSpec == FairSpec /\ SelectFairness

\* what ServeContext has returned: its only return statement returns nil
ServeContextResult == IF pc = "returned" THEN "nil" ELSE "running"

\* ---- steps of run(), as seen from outside ---------------------------------

\* this step is the loop calling run() on Reference r
RunStep(r) ==
    /\ pc = "iter" /\ idx <= Len(jobs) /\ jobs[idx] = r
    /\ idx' = idx + 1

\* this step is run() triggering Reference r (it starts a job body)
Fired(r) == RunStep(r) /\ refs'[r] # refs[r]

\* Reference r is in the registry
Registered(r) == r \in Range(jobs)

\* ---- C1 -----------------------------------------------------------------
\* C1: a Reference in BetweenRuns mode with interval > 0 never has more than
\* one execution of its job body in flight, whatever the bodies' durations
\* and however ticks, completions, Cancel and shutdown interleave.
C1_BetweenRunsOneInFlight ==
    \A r \in Allocated :
        (refs[r].mode = BetweenRuns /\ refs[r].interval > 0) => inflight[r] <= 1

\* a BetweenRuns body is still running one clock unit (its interval) after
\* its trigger, and the loop has just called run() on the Reference again
C1_Witness ==
    \E r \in Allocated :
        /\ refs[r].mode = BetweenRuns /\ refs[r].interval = SchedulerInterval
        /\ inflight[r] = 1
        /\ refs[r].lastRun < now
        /\ pc = "iter" /\ Registered(r) /\ idx > IndexOf(jobs, r)

\* ---- C2 -----------------------------------------------------------------
\* C2: for a BetweenRuns Reference with interval P > 0, nextRun holds the
\* far-future sentinel from a trigger until the body returns and (completion
\* time + P) after the return, and a trigger never happens earlier than the
\* completion of the previous body + P.
C2_NextRunOf(r) ==
    IF inflight[r] > 0 THEN maxTime
    ELSE IF After(doneAt[r] + refs[r].interval, now)
         THEN doneAt[r] + refs[r].interval
         ELSE now   \* a nextRun in the past is kept as `now`

C2_BetweenRunsSpacing ==
    /\ [](\A r \in Allocated :
            (refs[r].mode = BetweenRuns /\ refs[r].interval > 0
             /\ refs[r].runCount > 0)
            => refs[r].nextRun = C2_NextRunOf(r))
    /\ [][\A r \in Allocated :
            (Fired(r) /\ refs[r].mode = BetweenRuns /\ refs[r].interval > 0
             /\ refs[r].runCount > 0)
            => (doneAt[r] # ZeroTime
                /\ ~After(doneAt[r] + refs[r].interval, now))]_vars

\* a BetweenRuns Reference has been triggered a second time
C2_Witness ==
    \E r \in Allocated :
        /\ refs[r].mode = BetweenRuns /\ refs[r].interval = Minute
        /\ refs[r].runCount = 2
        /\ inflight[r] = 1
        /\ refs[r].nextRun = maxTime

\* ---- C3 -----------------------------------------------------------------
\* C3: a Reference registered with max-run N > 0 is triggered at most N
\* times: runCount <= maxRun in every state, and no tick triggers it once
\* runCount = N.
C3_MaxRunBound ==
    /\ [](\A r \in Allocated :
            refs[r].maxRun > 0 => refs[r].runCount <= refs[r].maxRun)
    /\ [][\A r \in Allocated :
            (refs[r].maxRun > 0 /\ refs[r].runCount = refs[r].maxRun)
            => (~Fired(r) /\ refs'[r].runCount = refs[r].runCount
                /\ inflight'[r] <= inflight[r])]_vars

\* a Reference has run max-run times and a later tick has found it exhausted
C3_Witness ==
    \E r \in Allocated :
        /\ refs[r].maxRun = MaxMaxRun
        /\ refs[r].runCount = refs[r].maxRun
        /\ queued[r] > 0

\* ---- C4 -----------------------------------------------------------------
\* C4: once a Reference with max-run N > 0 has been triggered N times, every
\* tick that finds it registered queues its removal, and while the loop keeps
\* running the Reference ends up out of the registry with its context
\* canceled.  (An exhausted Reference stays exhausted, so "every exhausted
\* Reference is eventually removed" is stated for all of them at once.)
C4_ExhaustedRemoved ==
    /\ [][\A r \in Allocated :
            (RunStep(r) /\ Exhausted(refs[r]))
            => queued'[r] = Inc(queued[r], MaxQueued)]_vars
    /\ (\E r \in Allocated : Exhausted(refs[r]))
       ~> (\A r \in Allocated :
              Exhausted(refs[r])
              => (~Registered(r) /\ refs[r].ctx = "canceled"))

\* an exhausted Reference has been removed while the Service is serving and
\* nobody has asked for a shutdown
C4_Witness ==
    \E r \in Allocated :
        /\ Exhausted(refs[r])
        /\ ~Registered(r) /\ refs[r].ctx = "canceled"
        /\ ~done /\ ~rootCanceled
        /\ queued[r] = 0

C6_ExpiryQueuedAtFirstTick ==
    [][\A r \in Allocated :
          (RunStep(r) /\ refs[r].stopAfter # ZeroTime
           /\ After(now, refs[r].stopAfter))
          => queued'[r] > 0]_vars

\* ---- C7 -----------------------------------------------------------------
\* C7: Cancel() on a Reference registered with a serving Service leaves it
\* out of the registry with its context canceled; a Reference that is out of
\* the registry stays out, keeps its context canceled, and no tick triggers
\* it: its runCount does not change and no body of it is started.
C7_CancelRemoves ==
    [][\A r \in Allocated :
          /\ (Cancel(r) /\ Registered(r) /\ pc \in {"lock", "select"})
             => (~(r \in Range(jobs')) /\ refs'[r].ctx = "canceled")
          /\ (~Registered(r) /\ refs[r].ctx = "canceled")
             => /\ ~(r \in Range(jobs'))
                /\ refs'[r].ctx = "canceled"
                /\ ~Fired(r)
                /\ refs'[r].runCount = refs[r].runCount
                /\ inflight'[r] <= inflight[r]]_vars

\* a Reference that ran, with no max-run and no deadline, was canceled while
\* the Service was serving; the other Reference has been triggered since
C7_Witness ==
    \E r \in Allocated : \E q \in Allocated \ {r} :
        /\ ~Registered(r) /\ refs[r].ctx = "canceled"
        /\ refs[r].maxRun = 0 /\ refs[r].stopAfter = ZeroTime
        /\ refs[r].runCount > 0 /\ refs[r].lastRun < now
        /\ Registered(q) /\ refs[q].lastRun = now
        /\ ~done /\ ~rootCanceled

\* ---- C8 -----------------------------------------------------------------
\* C8: Cancel() on a registered Reference, at any time and also before
\* ServeContext has started, completes without fault and removes the
\* Reference from the registry.
C8_CancelNeverFaults ==
    [][\A r \in Allocated :
          (Cancel(r) /\ Registered(r) /\ ~done)
          => (~crashed' /\ ~(r \in Range(jobs')))]_vars

\* ---- C9 -----------------------------------------------------------------
\* C9: Cancel() on a Reference that is no longer in the registry is a no-op:
\* it raises no fault and leaves the registry and every Reference (its
\* membership, context, runCount and nextRun) as they are.
C9_CancelIdempotent ==
    \A r \in Allocated :
        ~Registered(r)
        => /\ CancelJobs(r) = jobs
           /\ CancelRefs(r) = refs
           /\ ~CancelPanics(r)

\* a removed Reference can be canceled again while another Reference that
\* has run is still registered with the serving Service
C9_Witness ==
    \E r \in Allocated : \E q \in Allocated \ {r} :
        /\ ~Registered(r) /\ refs[r].ctx = "canceled"
        /\ Registered(q) /\ refs[q].ctx = "live" /\ refs[q].runCount > 0
        /\ ~done /\ ~crashed /\ mtx = "free"

\* ---- C10 ----------------------------------------------------------------
\* C10: once done is set, every AddJob returns an error, every cancelJob
\* returns without a change, and no step changes the registry.
C10_NoOpsAfterDone ==
    /\ [](done =>
            /\ \A a \in AddJobArgs :
                   AddJobErr(a[1], a[2]) # "nil"
            /\ \A r \in Refs :
                   /\ CancelJobs(r) = jobs
                   /\ CancelRefs(r) = refs
                   /\ ~CancelPanics(r))
    /\ [][done => (done' /\ jobs' = jobs
                   /\ \A r \in Refs : refs'[r].alloc = refs[r].alloc)]_vars

\* the Service has shut down with a Reference unused: an AddJob that would
\* have succeeded before the shutdown can be called
C10_Witness ==
    /\ done /\ pc = "returned" /\ mtx = "free" /\ ~crashed
    /\ Allocated # {}
    /\ Cardinality(Allocated) < MaxRefs

\* ---- C11 ----------------------------------------------------------------
\* C11: ServeContext returns only when the context passed to it is canceled;
\* it returns nil, and from then on done is set and the registry is empty;
\* the step that returns cancels the context of every Reference that was in
\* the registry.
C11_ShutdownState ==
    /\ [](pc = "returned"
          => (ServeContextResult = "nil" /\ done /\ jobs = <<>>
              /\ rootCanceled))
    /\ [][(pc # "returned" /\ pc' = "returned")
          => (rootCanceled
              /\ \A r \in Range(jobs) : refs'[r].ctx = "canceled")]_vars

\* ServeContext has returned while a Reference that had run was registered
C11_Witness ==
    \E r \in Allocated :
        /\ pc = "returned"
        /\ refs[r].runCount > 0 /\ ~Exhausted(refs[r])
        /\ refs[r].ctx = "canceled"
        /\ queued[r] = 0

\* ---- C12 ----------------------------------------------------------------
\* C12: once the context passed to ServeContext is canceled, ServeContext
\* returns in the end, also with job bodies that never return and with
\* queued self-cancellations pending.  (The cancellation and the return are
\* both final and a running ServeContext is never idle again, so this is:
\* time and again the context is not canceled, or ServeContext is not
\* running.)
C12_ShutdownTerminates ==
    []<>(~rootCanceled \/ pc \in {"idle", "returned"})

\* ServeContext has returned with a body still running and a
\* self-cancellation still queued
C12_Witness ==
    \E r \in Allocated :
        /\ pc = "returned"
        /\ inflight[r] > 0
        /\ queued[r] > 0

\* ---- C13 ----------------------------------------------------------------
\* C13: the loop does not wait for job bodies: run() on an eligible
\* Reference triggers it whatever bodies are running, and after a tick the
\* next tick begins (unless ServeContext returns), also when a body never
\* returns: a ServeContext that has been called is iterating over the
\* registry time and again, or has returned.
C13_LoopIndependentOfBodies ==
    /\ [][\A r \in Allocated :
            (RunStep(r)
             /\ ~(refs[r].maxRun > 0 /\ refs[r].runCount >= refs[r].maxRun)
             /\ ~After(refs[r].nextRun, now)
             /\ ~(refs[r].stopAfter # ZeroTime /\ After(now, refs[r].stopAfter))
             /\ refs[r].ctx = "live" /\ ~rootCanceled)
            => (refs'[r].lastRun = now
                /\ inflight'[r] = Inc(inflight[r], MaxInflight))]_vars
    /\ []<>(pc \in {"idle", "iter", "returned"})

\* a tick has triggered one Reference while the body of another Reference,
\* started at an earlier tick, is still running
C13_Witness ==
    \E r \in Allocated : \E q \in Allocated \ {r} :
        /\ inflight[q] > 0 /\ refs[q].lastRun < now
        /\ inflight[r] > 0 /\ refs[r].lastRun = now
        /\ pc = "select" /\ ~rootCanceled

\* ---- C14 ----------------------------------------------------------------
\* C14: the registry mutex is always released again: the tick iteration
\* does not remove a Reference itself, a self-cancellation runs only once
\* the mutex is free, and the iteration that holds the mutex gives it back
\* (the mutex is free time and again).
C14_NoMutexDeadlock ==
    /\ [](mtx = "loop" <=> pc = "iter")
    /\ [][(pc = "iter" => jobs' = jobs)
          /\ \A r \in Refs : queued'[r] < queued[r] => mtx = "free"]_vars
    /\ []<>(mtx = "free")

\* the iteration has handed a self-cancellation to a goroutine and released
\* the mutex while the Reference is still registered
C14_Witness ==
    \E r \in Allocated :
        /\ queued[r] > 0 /\ Registered(r)
        /\ pc = "select" /\ mtx = "free"

\* ---- C15 ----------------------------------------------------------------
\* C15: an AddJob that returns an error leaves the registry and every
\* Reference as they were; the error of a call whose options fail is the
\* error of the first option, in the order given, that fails.
C15_FailedAddJobNoChange ==
    \A a \in AddJobArgs :
        /\ AddJobErr(a[1], a[2]) # "nil"
           => (AddJobJobs(a[1], a[2]) = jobs /\ AddJobRefs(a[1], a[2]) = refs)
        /\ \A k \in 1..Len(a[2]) :
              (OptionErr(a[2][k]) # "nil"
               /\ \A j \in 1..(k - 1) : OptionErr(a[2][j]) = "nil")
              => AddJobErr(a[1], a[2]) = OptionErr(a[2][k])

\* the Service is serving a Reference that has run, or has shut down after
\* it, and AddJob can be called (the mutex is free)
C15_Witness ==
    \E r \in Allocated :
        /\ refs[r].runCount > 0
        /\ pc \in {"select", "returned"} /\ mtx = "free" /\ ~crashed
        /\ \E a \in AddJobArgs :
               /\ Len(a[2]) > 1
               /\ OptionErr(a[2][1]) = "nil"
               /\ AddJobErr(a[1], a[2]) \notin {"nil", "service has already shut down"}

\* ---- C16 ----------------------------------------------------------------
\* C16: on a Service whose SchedulerInterval is one second and that has not
\* shut down, AddJob with WithInterval(one second) returns no error.
C16_IntervalAtGranularityAccepted ==
    (SchedulerInterval = Second /\ ~done)
    => AddJobErr(now, <<WithInterval(Second)>>) = "nil"

\* ---- C17 ----------------------------------------------------------------
\* C17: every Reference in the registry has interval >= SchedulerInterval;
\* AddJob returns ErrIntervalTooShort and registers nothing when the interval
\* left by the options is smaller than SchedulerInterval.
C17_IntervalAtLeastGranularity ==
    /\ \A r \in Range(jobs) : refs[r].interval >= SchedulerInterval
    /\ \A a \in AddJobArgs :
           (ApplyOptions(BaseRef(a[1]), a[2]).err = "nil"
            /\ ApplyOptions(BaseRef(a[1]), a[2]).ref.interval < SchedulerInterval)
           => /\ AddJobErr(a[1], a[2]) = "ErrIntervalTooShort"
              /\ AddJobJobs(a[1], a[2]) = jobs
              /\ AddJobRefs(a[1], a[2]) = refs

\* a serving Service whose SchedulerInterval is above the interval that an
\* AddJob with accepted options asks for, with a Reference that has run
C17_Witness ==
    /\ \E a \in AddJobArgs :
           /\ ApplyOptions(BaseRef(a[1]), a[2]).err = "nil"
           /\ ApplyOptions(BaseRef(a[1]), a[2]).ref.interval < SchedulerInterval
    /\ \E r \in Range(jobs) : refs[r].runCount > 0
    /\ ~done /\ mtx = "free" /\ ~crashed

\* ---- C18 ----------------------------------------------------------------
\* C18: a trigger of an OnTick Reference with interval P > 0 sets nextRun to
\* the time of the trigger + P, and it happens no earlier than P after the
\* previous trigger, whatever the bodies do.
C18_OnTickSpacing ==
    [][\A r \in Allocated :
          (Fired(r) /\ refs[r].mode = OnTick /\ refs[r].interval > 0)
          => /\ refs'[r].nextRun = now + refs[r].interval
             /\ refs[r].runCount > 0
                => ~After(refs[r].lastRun + refs[r].interval, now)]_vars

\* an OnTick Reference with an interval of two ticks has just been triggered
\* again while an earlier body is still running
C18_Witness ==
    \E r \in Allocated :
        /\ refs[r].mode = OnTick /\ refs[r].interval = Minute
        /\ refs[r].runCount > 1
        /\ inflight[r] = 2
        /\ refs[r].lastRun = now

\* ---- C19 ----------------------------------------------------------------
\* job A of the test is an OnTick job without max-run that is still
\* registered with a Service that has not been asked to shut down
C19_JobAServed ==
    /\ elapsed >= 0
    /\ refs[1].mode = OnTick /\ refs[1].interval >= SchedulerInterval
    /\ refs[1].maxRun = 0
    /\ Registered(1) /\ ~rootCanceled
    /\ pc \in {"lock", "iter", "select"}

C21_BodyErrorIsolated ==
    /\ [](\A r \in Allocated :
            BodyReturnsRefs(r, "error") = BodyReturnsRefs(r, "nil"))
    /\ [][\A r \in Refs :
            (failed'[r] /\ ~failed[r])
            => /\ jobs' = jobs /\ pc' = pc /\ done' = done /\ mtx' = mtx
               /\ refs'[r].ctx = refs[r].ctx
               /\ refs'[r].runCount = refs[r].runCount
               /\ refs'[r].nextRun =
                      IF refs[r].interval > 0 /\ refs[r].mode = BetweenRuns
                      THEN now + refs[r].interval
                      ELSE refs[r].nextRun
               /\ \A q \in Refs \ {r} : refs'[q] = refs[q]]_vars
    /\ [][\A r \in Allocated :
            (RunStep(r) /\ failed[r]
             /\ ~(refs[r].maxRun > 0 /\ refs[r].runCount >= refs[r].maxRun)
             /\ ~After(refs[r].nextRun, now)
             /\ ~(refs[r].stopAfter # ZeroTime
                  /\ After(now, refs[r].stopAfter))
             /\ refs[r].ctx = "live" /\ ~rootCanceled)
            => (refs'[r].lastRun = now
                /\ inflight'[r] = Inc(inflight[r], MaxInflight))]_vars

\* the first body of a BetweenRuns Reference returned an error, and the
\* Reference, still registered with a live context, has been triggered again
C21_Witness ==
    \E r \in Allocated :
        /\ failed[r]
        /\ refs[r].mode = BetweenRuns /\ refs[r].maxRun = MaxMaxRun
        /\ refs[r].runCount = 2 /\ inflight[r] = 1
        /\ Registered(r) /\ refs[r].ctx = "live"
        /\ ~rootCanceled /\ pc = "select"

C23_RemovalIsLocal ==
    [][\A r \in Allocated :
          (r \in Range(jobs) /\ r \notin Range(jobs') /\ ~done')
          => /\ Range(jobs') = Range(jobs) \ {r}
             /\ \A q \in Refs \ {r} : refs'[q] = refs[q]
             /\ inflight' = inflight
             /\ \/ refs'[r] = [refs[r] EXCEPT !.ctx = "canceled"]
                \/ refs[r].ctx = "nil" /\ refs'[r] = refs[r]]_vars

\* a Reference has been removed while its job body is running, and another
\* Reference that has run is still registered with a live context
C23_Witness ==
    \E r, q \in Allocated :
        /\ r # q
        /\ ~Registered(r) /\ refs[r].ctx = "canceled" /\ inflight[r] > 0
        /\ Registered(q) /\ refs[q].ctx = "live" /\ refs[q].runCount > 0
        /\ ~done /\ ~rootCanceled

\* ---- C24 ----------------------------------------------------------------
\* C24: once ServeContext has bound the root context, every Reference in
\* the registry has a context derived from it: ServeContext derives one for
\* each Reference registered before, AddJob derives one while serving (and
\* none before), run() is only called on a serving Service, and once the
\* root is canceled the context of every registered Reference is canceled.
C24_RegisteredHaveContext ==
    /\ [](sctx = "set" => \A r \in Range(jobs) : refs[r].ctx = "live")
    /\ [](pc = "iter" => sctx = "set")
    /\ []((sctx = "set" /\ rootCanceled)
           => \A r \in Range(jobs) : CtxErr(refs[r]))
    /\ [][(sctx = "nil" /\ sctx' = "set")
          => \A r \in Range(jobs) :
                 refs[r].ctx = "nil" /\ refs'[r].ctx = "live"]_vars
    /\ [][\A r \in Refs :
            (r \notin Range(jobs) /\ r \in Range(jobs'))
            => refs'[r].ctx = IF sctx = "set" THEN "live" ELSE "nil"]_vars

\* a Reference registered while ServeContext is serving (no tick has found
\* it yet) has a live context, next to a Reference that has been triggered
C24_Witness ==
    /\ pc = "select" /\ sctx = "set" /\ ~rootCanceled
    /\ jobs = <<1, 2>>
    /\ refs[1].ctx = "live" /\ refs[1].runCount > 0
    /\ refs[2].ctx = "live" /\ refs[2].runCount = 0
    /\ refs[2].nextRun = now

\* ---- C25 ----------------------------------------------------------------
\* C25: runCount changes only when run() triggers the Reference, by exactly
\* +1, in the step that starts the job body; every start of a body counts;
\* and while the test counts the body starts of job A, runCount of job A is
\* that count (as far as runCount is counted).  So runCount never decreases
\* and no other tick, no Cancel, no return of a body and no shutdown
\* changes it.
C25_RunCountCountsTriggers ==
    /\ [][\A r \in Allocated :
            refs'[r].runCount # refs[r].runCount
            => /\ RunStep(r)
               /\ refs'[r].runCount = refs[r].runCount + 1
               /\ inflight'[r] = Inc(inflight[r], MaxInflight)
               /\ refs'[r].lastRun = now]_vars
    /\ [][\A r \in Allocated :
            (inflight'[r] > inflight[r] \/ (RunStep(r) /\ countA' # countA))
            => refs'[r].runCount = Inc(refs[r].runCount, RunCap(refs[r]))]_vars
    /\ []((elapsed >= 0 /\ elapsed <= window)
           => refs[1].runCount =
                  IF countA < RunCap(refs[1]) THEN countA
                  ELSE RunCap(refs[1]))

\* job A has been triggered as often as its max-run allows, its bodies have
\* returned, it has been removed and the Service has shut down: runCount is
\* still the number of body starts
C25_Witness ==
    /\ elapsed >= 0 /\ elapsed <= window
    /\ refs[1].maxRun = MaxMaxRun /\ refs[1].runCount = MaxMaxRun
    /\ countA = MaxMaxRun
    /\ inflight[1] = 0 /\ ~Registered(1) /\ refs[1].ctx = "canceled"
    /\ done /\ pc = "returned"

\* ---- C26 ----------------------------------------------------------------
\* C26: while no Service has been initialized the package-level AddJob
\* returns "cron service not initialized" and registers nothing; Initialize
\* binds the package's scheduler when none is bound and changes nothing
\* otherwise, so the first Service stays bound; and with a Service bound the
\* package-level AddJob returns and does what AddJob of that Service does,
\* leaving the other Service alone.
C26_PackageAddJob ==
    /\ [](\A a \in AddJobArgs :
            /\ scheduler = "nil"
               => /\ PkgAddJobErr(a[1], a[2]) = "cron service not initialized"
                  /\ PkgAddJobJobs(a[1], a[2]) = jobs
                  /\ PkgAddJobRefs(a[1], a[2]) = refs
                  /\ PkgAddJobOther(a[1], a[2]) = otherJobs
            /\ scheduler = Served
               => /\ PkgAddJobErr(a[1], a[2]) = AddJobErr(a[1], a[2])
                  /\ PkgAddJobJobs(a[1], a[2]) = AddJobJobs(a[1], a[2])
                  /\ PkgAddJobRefs(a[1], a[2]) = AddJobRefs(a[1], a[2])
                  /\ PkgAddJobOther(a[1], a[2]) = otherJobs
            /\ scheduler = Other
               => /\ PkgAddJobJobs(a[1], a[2]) = jobs
                  /\ PkgAddJobRefs(a[1], a[2]) = refs
                  /\ PkgAddJobErr(a[1], a[2]) = OtherAddJobErr(a[1], a[2])
                  /\ PkgAddJobOther(a[1], a[2]) =
                         IF PkgAddJobErr(a[1], a[2]) = "nil"
                         THEN Inc(otherJobs, MaxOtherJobs)
                         ELSE otherJobs)
    /\ [][scheduler = "nil" /\ scheduler' # "nil"
          => UNCHANGED <<jobs, refs, otherJobs, done, sctx>>]_vars
    /\ [][scheduler # "nil" => scheduler' = scheduler]_vars
    /\ [][scheduler = "nil" => (otherJobs' = otherJobs)]_vars
    /\ [][otherJobs' # otherJobs => (scheduler = Other /\ jobs' = jobs)]_vars

\* the other Service was initialized first: the package-level AddJob has
\* registered a job with it and none with the served Service, which is
\* running and has a job registered through its own AddJob
C26_Witness ==
    /\ scheduler = Other /\ otherJobs > 0
    /\ pc = "select" /\ ~done
    /\ Len(jobs) = 1 /\ refs[1].runCount > 0

\* ---- C27 ----------------------------------------------------------------
\* C27: AddJob with a WithStopAfter option whose deadline is earlier than
\* one hour after now returns an error and registers nothing, and a
\* Reference that enters the registry has no deadline or one that is at
\* least one hour away.
C27_StopAfterLeadTime ==
    /\ [](\A a \in AddJobArgs :
            (\E k \in 1..Len(a[2]) :
                 /\ a[2][k].kind = "WithStopAfter"
                 /\ a[2][k].num < now + Hour)
            => /\ AddJobErr(a[1], a[2]) # "nil"
               /\ AddJobJobs(a[1], a[2]) = jobs
               /\ AddJobRefs(a[1], a[2]) = refs)
    /\ [](\A a \in {now} \X PastDeadlines :
            ApplyOptions(BaseRef(a[1]), a[2]).err = "stopAfter too early")
    /\ [][\A r \in Refs :
            (r \notin Range(jobs) /\ r \in Range(jobs'))
            => \/ refs'[r].stopAfter = ZeroTime
               \/ ~After(now + Hour, refs'[r].stopAfter)]_vars

\* a Reference has just been registered with a deadline exactly one hour
\* away, on a Service that rejects the earlier deadlines
C27_Witness ==
    \E r \in Allocated :
        /\ Registered(r) /\ refs[r].stopAfter = now + Hour
        /\ refs[r].runCount = 0
        /\ \A a \in {now} \X PastDeadlines : AddJobErr(a[1], a[2]) # "nil"

\* ---- C28 ----------------------------------------------------------------
\* C28: AddWatcher with a name that equals the name of an existing
\* registration when case is ignored returns "registration already exists"
\* and leaves the registrations, the per-directory counts, the watched paths
\* and the channels as they were, whatever the path, the state of the
\* directory and the state of the Service; so no two registrations ever have
\* names that are equal ignoring case.
C28_DuplicateNameRejected ==
    /\ \A name \in Names, fqn \in Files, stat \in StatResults,
          addErr \in BOOLEAN :
           (\E k \in 1..Len(f) :
               /\ Len(f[k].name) = Len(name)
               /\ \A j \in 1..Len(name) :
                      FoldChar(f[k].name[j]) = FoldChar(name[j]))
           => LET res == AddWatcherResult(name, fqn, stat, addErr) IN
              /\ res.err = "registration already exists"
              /\ res.f = f
              /\ res.p = p
              /\ res.w = w
              /\ res.chans = chans
    /\ \A k \in 1..Len(f), j \in 1..Len(f) :
           k # j =>
               \/ Len(f[k].name) # Len(f[j].name)
               \/ \E i \in 1..Len(f[k].name) :
                      FoldChar(f[k].name[i]) # FoldChar(f[j].name[i])

\* an initialized Service holds the registration "tf" of a file in a watched
\* directory, and "Tf" is rejected for a file in another directory
C28_Witness ==
    /\ initialized = 1
    /\ Len(f) = 1
    /\ f[1].name = <<"t", "f">>
    /\ f[1].defaultFilePath = <<"d", "x">>
    /\ p[<<"d">>] = 1
    /\ <<"d">> \in w.paths
    /\ chans[f[1].ch] = "open"
    /\ AddWatcherResult(<<"T", "f">>, <<"e", "z">>, "ok", FALSE).err
           = "registration already exists"

\* ---- C29 ----------------------------------------------------------------
\* C29: RemoveWatcher with a name that matches no registration returns
\* "registration <name> not found" and changes nothing; with a name that
\* matches a registration it removes that registration and no other, and
\* closes the channel of that registration and no other.
C29_RemoveWatcher ==
    \A name \in Names, rmErr \in BOOLEAN :
        LET res == RemoveWatcherResult(name, rmErr)
            i == FindReg(name)
        IN
        /\ i = 0 =>
              /\ res.err = <<"registration ", name, " not found">>
              /\ res.f = f /\ res.p = p /\ res.w = w /\ res.chans = chans
              /\ ~res.panic
        /\ i # 0 =>
              /\ Len(res.f) = Len(f) - 1
              /\ \A k \in 1..Len(f) :
                     k # i => \E j \in 1..Len(res.f) : res.f[j] = f[k]
              /\ \A j \in 1..Len(res.f) : res.f[j] # f[i]
              /\ res.chans[f[i].ch] = "closed"
              /\ ~res.panic
              /\ \A c \in Chans : c # f[i].ch => res.chans[c] = chans[c]

\* ---- C30 ----------------------------------------------------------------
\* C30: run() triggers a Reference only when its nextRun is not after the
\* current time.  A Reference comes into being untriggered with the first-run
\* time given to AddJob as its nextRun, which nothing but the passing of time
\* touches until the first trigger, so no job is triggered before its
\* first-run time.  A call of run() on a Reference whose nextRun is still in
\* the future changes none of its fields (runCount, lastRun, nextRun,
\* context, ...), starts no job body and leaves the registry as it is; it
\* queues a cancellation only for a Reference that is already exhausted.
C30_TriggerOnlyWhenDue ==
    /\ [][\A r \in Refs : Fired(r) => ~After(refs[r].nextRun, now)]_vars
    /\ [][\A r \in Refs :
            (~refs[r].alloc /\ refs'[r].alloc)
            => /\ refs'[r].runCount = 0
               /\ \E a \in AddJobArgs : refs'[r].nextRun = a[1]]_vars
    /\ [][\A r \in Refs :
            (refs[r].alloc /\ refs[r].runCount = 0 /\ refs'[r].runCount = 0)
            => refs'[r].nextRun
                   \in {refs[r].nextRun, Elapse(refs[r].nextRun, now)}]_vars
    /\ [][\A r \in Refs :
            (RunStep(r) /\ After(refs[r].nextRun, now))
            => /\ refs'[r] = refs[r]
               /\ jobs' = jobs
               /\ inflight' = inflight
               /\ doneAt' = doneAt
               /\ (refs[r].maxRun = 0 \/ refs[r].runCount < refs[r].maxRun)
                      => queued' = queued]_vars

\* the tick has just called run() on a Reference that was registered with a
\* first-run time in the future: it is still untriggered and in the registry
C30_Witness ==
    \E r \in Allocated :
        /\ pc = "iter" /\ idx = 2 /\ jobs[1] = r
        /\ After(refs[r].nextRun, now)
        /\ refs[r].runCount = 0 /\ refs[r].lastRun = ZeroTime
        /\ refs[r].ctx = "live"
        /\ inflight[r] = 0 /\ queued[r] = 0

\* ---- C31 ----------------------------------------------------------------
\* C31: when run() is called on a Reference that is due, not exhausted and
\* not expired but whose context is canceled (by itself or through the root
\* context), it returns false: the Reference keeps runCount, lastRun, nextRun
\* and every other field, no job body is started, no cancellation is queued
\* and the registry is left alone.
C31_CanceledContextNotTriggered ==
    /\ [](\A r \in Allocated :
            (refs[r].ctx = "canceled" \/ (refs[r].ctx = "live" /\ rootCanceled))
            => ~RunTriggers(refs[r]))
    /\ [][\A r \in Refs :
            (/\ RunStep(r)
             /\ ~After(refs[r].nextRun, now)
             /\ (refs[r].maxRun = 0 \/ refs[r].runCount < refs[r].maxRun)
             /\ (refs[r].stopAfter = ZeroTime \/ ~After(now, refs[r].stopAfter))
             /\ \/ refs[r].ctx = "canceled"
                \/ refs[r].ctx = "live" /\ rootCanceled)
            => /\ refs'[r] = refs[r]
               /\ inflight' = inflight
               /\ queued' = queued
               /\ jobs' = jobs
               /\ countA' = countA
               /\ doneAt' = doneAt]_vars

\* the root context was canceled while the tick held the lock, and the tick
\* has just called run() on a due Reference: it is untouched
C31_Witness ==
    \E r \in Allocated :
        /\ pc = "iter" /\ idx = 2 /\ jobs[1] = r
        /\ rootCanceled /\ refs[r].ctx = "live"
        /\ ~After(refs[r].nextRun, now)
        /\ refs[r].maxRun = 0 /\ refs[r].stopAfter = ZeroTime
        /\ refs[r].runCount = 0 /\ refs[r].lastRun = ZeroTime
        /\ inflight[r] = 0 /\ queued[r] = 0

\* ---- C32 ----------------------------------------------------------------
\* C32: while the tick holds the mutex nobody writes the registry (AddJob,
\* Cancel and the spawned cancelJob wait for the lock).  The tick starts at
\* the first entry when it takes the lock, every step of it calls run() on
\* the entry at its index and moves the index by one, and it releases the
\* lock only when the index has passed the last entry: with a registry free
\* of duplicates, every Reference that is registered when the lock is taken
\* is evaluated exactly once in the tick, none skipped, none twice.
C32_TickEvaluatesEachOnce ==
    /\ [][mtx = "loop" => jobs' = jobs]_vars
    /\ [][(mtx = "free" /\ mtx' = "loop") => (idx' = 1 /\ pc' = "iter")]_vars
    /\ [][(mtx = "loop" /\ mtx' = "loop" /\ idx' # idx)
            => /\ idx \in 1..Len(jobs)
               /\ idx' = idx + 1
               /\ RunStep(jobs[idx])
               /\ \A q \in Refs : q # jobs[idx] => refs'[q] = refs[q]]_vars
    /\ [][(mtx = "loop" /\ mtx' = "free") => idx = Len(jobs) + 1]_vars
    /\ [](mtx = "loop" => (pc = "iter" /\ idx \in 1..(Len(jobs) + 1)))
    /\ [](\A k \in 1..Len(jobs), j \in 1..Len(jobs) :
            jobs[k] = jobs[j] => k = j)

\* the tick still holds the lock and has called run() on both registered
\* References: each was triggered in this tick
C32_Witness ==
    /\ mtx = "loop" /\ pc = "iter"
    /\ Len(jobs) = 2 /\ idx = 3
    /\ \A r \in Range(jobs) : refs[r].lastRun = now /\ inflight[r] > 0

\* ---- C33 ----------------------------------------------------------------
\* C33: on a Service where nobody calls Cancel and the root context is never
\* canceled, every call of run() on an exhausted Reference spawns cancelJob,
\* whether or not a job body of the Reference is still running, and the
\* spawned cancelJob removes the Reference and cancels its context without
\* waiting for the body; a context is only ever canceled for a Reference
\* that is exhausted or past its deadline.  So the last body of a max-run job
\* can be running on a context the scheduler itself has canceled.
C33_ExhaustionDoesNotWaitForBody ==
    /\ [][\A r \in Refs :
            (RunStep(r) /\ refs[r].maxRun > 0
                        /\ refs[r].runCount >= refs[r].maxRun)
            => /\ queued'[r] = Inc(queued[r], MaxQueued)
               /\ inflight' = inflight
               /\ refs' = refs]_vars
    /\ [][\A r \in Refs :
            (r \in Range(jobs) /\ queued'[r] < queued[r])
            => /\ r \notin Range(jobs')
               /\ refs'[r].ctx = "canceled"
               /\ inflight' = inflight]_vars
    /\ [](\A r \in Allocated :
            refs[r].ctx = "canceled"
            => \/ refs[r].maxRun > 0 /\ refs[r].runCount >= refs[r].maxRun
               \/ refs[r].stopAfter # ZeroTime)
    /\ [](~rootCanceled /\ ~done)

\* the last body of a max-run job is still running, and the Reference has
\* been removed and its context canceled by the cancelJob that run() spawned
C33_Witness ==
    \E r \in Allocated :
        /\ refs[r].maxRun > 0 /\ refs[r].runCount = refs[r].maxRun
        /\ refs[r].stopAfter = ZeroTime
        /\ inflight[r] > 0
        /\ refs[r].ctx = "canceled"
        /\ r \notin Range(jobs)
        /\ ~rootCanceled /\ ~done /\ pc # "returned"

\* ---- C34 ----------------------------------------------------------------
\* C34: the registry never holds a Reference twice, and cancelJob(r), for
\* any Reference r in any state, leaves a registry whose References are
\* those of before without r, again without duplicates, and whose length is
\* one less when r was registered and the same when it was not; every
\* removal step takes exactly one Reference out.
C34_SwapRemoveExact ==
    /\ [](\A k \in 1..Len(jobs), j \in 1..Len(jobs) :
            jobs[k] = jobs[j] => k = j)
    /\ [](\A r \in Refs :
            LET after == CancelJobs(r) IN
            /\ Range(after) = Range(jobs) \ {r}
            /\ Len(after) = IF r \in Range(jobs) THEN Len(jobs) - 1
                                                 ELSE Len(jobs)
            /\ \A k \in 1..Len(after), j \in 1..Len(after) :
                   after[k] = after[j] => k = j)
    /\ [][(Len(jobs') < Len(jobs) /\ ~done')
            => /\ Len(jobs') = Len(jobs) - 1
               /\ \E r \in Range(jobs) :
                      Range(jobs') = Range(jobs) \ {r}]_vars

\* the first of two registered References was removed: the last one has
\* taken its place
C34_Witness ==
    /\ Allocated = {1, 2}
    /\ jobs = <<2>>
    /\ refs[1].ctx = "canceled" /\ refs[2].ctx = "live"
    /\ ~done /\ ~crashed

\* ---- C35 ----------------------------------------------------------------
\* C35: on a Service that is serving or has served, every Reference that has
\* a derived context and is not in the registry has had its cancel function
\* called.  A Reference leaves the registry only in a step of cancelJob on
\* it or in the shutdown sweep, and if it has a context that step cancels it.
C35_NoContextOutlivesRegistration ==
    /\ [](sctx = "set" =>
            \A r \in Allocated :
                (refs[r].ctx # "nil" /\ r \notin Range(jobs))
                => refs[r].ctx = "canceled")
    /\ [][\A r \in Refs :
            (r \in Range(jobs) /\ r \notin Range(jobs'))
            => /\ \/ jobs' = CancelJobs(r) /\ ~done /\ ~done'
                  \/ ~done /\ done' /\ jobs' = <<>> /\ pc' = "returned"
               /\ refs[r].ctx # "nil" => refs'[r].ctx = "canceled"]_vars

\* ServeContext has returned after it had served two References: both are
\* out of the registry with their contexts canceled, one of them while its
\* job body is still running
C35_Witness ==
    \E r, q \in Allocated :
        /\ r # q
        /\ pc = "returned" /\ done /\ jobs = <<>>
        /\ refs[r].ctx = "canceled" /\ refs[r].runCount > 0
        /\ inflight[r] > 0
        /\ refs[q].ctx = "canceled"

\* ---- C36 ----------------------------------------------------------------
\* C36: done is never cleared once it is set; it is set by the shutdown
\* sweep, which empties the registry in the same step; and in every state in
\* which done is set the registry is empty, and stays so: no AddJob, no
\* Cancel, no queued cancelJob and no returning job body puts a Reference
\* into it.
C36_DoneIsFinal ==
    /\ [][done => done']_vars
    /\ [][(~done /\ done') => jobs' = <<>>]_vars
    /\ [](done => jobs = <<>>)
    /\ [](done =>
            /\ \A a \in AddJobArgs : AddJobJobs(a[1], a[2]) = <<>>
            /\ \A r \in Refs : CancelJobs(r) = <<>>)
    /\ [][done => jobs' = <<>>]_vars

\* after the shutdown a body of a Reference is still running and a cancelJob
\* that run() spawned for it has still to get the lock, which is free
C36_Witness ==
    \E r \in Allocated :
        /\ done /\ jobs = <<>> /\ mtx = "free" /\ ~crashed
        /\ queued[r] > 0 /\ inflight[r] > 0
        /\ refs[r].ctx = "canceled"
        /\ \A a \in AddJobArgs : AddJobErr(a[1], a[2]) # "nil"

\* ---- C37 ----------------------------------------------------------------
\* C37: in an initialized file watcher the count kept for a directory is the
\* number of registrations whose file lies in it, and the directory is
\* watched exactly when that count is at least 1.
C37_CountsMatchRegistrations ==
    initialized = 1 =>
        \A d \in Dirs :
            /\ p[d] = Cardinality({k \in 1..Len(f) :
                                      Dir(f[k].defaultFilePath) = d})
            /\ d \in w.paths <=> p[d] >= 1

\* ---- C38 ----------------------------------------------------------------
\* C38: no channel of a registration is closed a second time, neither by a
\* call that has happened nor by a RemoveWatcher that may be called now, and
\* ServeContext never sends on a closed channel.
C38_ChannelsClosedOnce ==
    /\ ~fwCrashed
    /\ \A name \in Names, rmErr \in BOOLEAN :
           ~RemoveWatcherResult(name, rmErr).panic
    /\ fwpc = "send" => chans[f[fwi].ch] = "open"

\* ---- C39 ----------------------------------------------------------------
\* C39: once the context of a running ServeContext is canceled, ServeContext
\* eventually returns with every remaining registration's channel closed,
\* and the read lock that keeps AddWatcher and RemoveWatcher waiting is
\* eventually released, whether or not the consumers receive.
C39_ShutdownReturns ==
    /\ (fwCanceled /\ fwpc \in {"ready", "deliver", "send"})
           ~> (fwCrashed \/ (/\ fwpc = "returned"
                             /\ \A k \in 1..Len(f) : chans[f[k].ch] = "closed"))
    /\ (fwCanceled /\ RLocked) ~> ~RLocked

============================================================================
